---- MODULE Spec2Model ----
(***************************************************************************)
(* Model of src/Main.py: the script that builds the FEMM cross-section of  *)
(* a three-phase submarine cable, assigns region properties, runs the      *)
(* solver and samples the solved field.                                    *)
(*                                                                         *)
(* Lengths are fixed-point integers, Scale units per millimetre (the       *)
(* smallest length of the script, dist1 = 0.01 mm, is one unit).  The      *)
(* conductor area is in mm^2 and the peak current in centiamperes.         *)
(* Irrational factors (pi, sin 60, sqrt 3) are rationals and every product *)
(* with them is rounded to the nearest unit.                               *)
(***************************************************************************)
EXTENDS Integers, Sequences, FiniteSets, TLC

VARIABLES
    inp,            \* the user inputs of lines 29-43 (a record)
    sup,            \* the support variables of lines 46-57 (a record)
    arm,            \* the armour globals of lines 306-378 (a record)
    materials,      \* FEMM material library: name -> conductivity (S/m)
    labels,         \* FEMM block labels added so far
    prims,          \* FEMM line and arc primitives drawn so far
    props,          \* FEMM block properties of every label
    selected,       \* FEMM selection (a set of labels)
    circuits,       \* FEMM circuit properties: name -> [re, im]
    pc,             \* position of the script
    i,              \* loop variable of the current for-loop over i
    p,              \* loop variable of the near/far offset loop
    n,              \* loop variable of the lateral / radial loop
    nAnalyze,       \* number of mi_analyze calls made
    loaded,         \* mi_loadsolution has returned
    nQueries,       \* number of field queries issued (mo_get*)
    lists,          \* the Python lists contour, b_value, ... (a record)
    axes,           \* what has been plotted on ax1..ax6
    files,          \* report files written by savefig
    error           \* "" or the exception that ended the run

vars == <<inp, sup, arm, materials, labels, prims, props, selected, circuits,
          pc, i, p, n, nAnalyze, loaded, nQueries, lists, axes, files, error>>

femmVars == <<materials, labels, prims, props, selected, circuits>>
loopVars == <<i, p, n>>
postVars == <<nAnalyze, loaded, nQueries, lists, axes, files>>

----------------------------------------------------------------------------
(* Units and numeric helpers *)

Scale == 100                \* model units per mm

PiNum == 355                \* sp.pi as PiNum / PiDen
PiDen == 113
TrigDen == 10000            \* denominator of the trigonometric constants
Sin60Num == 8660            \* sp.sin(np.radians(60))
Cos60Num == 5000            \* sp.cos(np.radians(60))
Sqrt3Num == 17321           \* sp.sqrt(3)

\* floor of a / b for b # 0
FloorDiv(a, b) == IF b > 0 THEN a \div b ELSE (-a) \div (-b)

\* a / b rounded to the nearest integer, b > 0
RDiv(a, b) == (2 * a + b) \div (2 * b)

\* Python int(): truncation toward zero of a length given in model units
IntMM(x) == IF x >= 0 THEN x \div Scale ELSE -((-x) \div Scale)

RECURSIVE SqrtIter(_, _, _)
SqrtIter(x, lo, hi) ==
    IF lo >= hi THEN lo
    ELSE LET mid == (lo + hi + 1) \div 2
         IN  IF mid * mid <= x THEN SqrtIter(x, mid, hi)
             ELSE SqrtIter(x, lo, mid - 1)

\* floor of the square root of x >= 0
ISqrt(x) == SqrtIter(x, 0, IF x < 40000 THEN x ELSE 40000)

\* sp.sqrt(A / sp.pi) in model units, rounded to the nearest unit
ConductorRadius(A) ==
    (ISqrt((4 * A * Scale * Scale * PiDen) \div PiNum) + 1) \div 2

----------------------------------------------------------------------------
(* Program constants *)

dist1 == 1                  \* 0.01 mm
dist2 == 1                  \* 0.01 mm
cond_surf == 20             \* 0.2 mm
space == 5                  \* 0.05 mm
limit_fine == 40000         \* 400 mm
limit_coarse == 350000      \* 3500 mm

copper_conductivity == 58000000
XLPE_conductivity == 0
NM_screen_conductivity == 1
M_screen_conductivity == 5000000
inner_conductivity == 0
bedding_conductivity == 0
armour_conductivity == 1100000
over_conductivity == 0
seawater_conductivity == 5
seabed_conductivity == 1

----------------------------------------------------------------------------
(* User inputs *)

DefaultInput ==
    [A_cond |-> 50, cond_screen |-> 20, insulation |-> 340,
     insul_screen_NM |-> 300, insul_screen_ME |-> 20, bedding |-> 20,
     r_armour |-> 200, r_armour_2 |-> 0, over_sheath |-> 200,
     AMPS |-> 8, burial_depth |-> 200000]

\* burial depths: surface laid, 200 mm, limit_fine, the script's 2000 mm
BurialDepths == {0, 20000, limit_fine, 200000}

\* second armour layer radius: absent, 2 mm
SecondArmourRadii == {0, 200}

PhysicalInputs ==
    { [DefaultInput EXCEPT !.burial_depth = bd, !.r_armour_2 = r2] :
        bd \in BurialDepths, r2 \in SecondArmourRadii }

\* non-physical configurations: zero conductor area, a negative screen
\* thickness, a bedding so negative that the first ring packs 0 wires, and
\* one where the second ring packs 0 wires
NonPhysicalInputs ==
    { [DefaultInput EXCEPT !.A_cond = 0, !.r_armour_2 = 200],
      [DefaultInput EXCEPT !.cond_screen = -10, !.r_armour_2 = 200],
      [DefaultInput EXCEPT !.bedding = -2530],
      [DefaultInput EXCEPT !.bedding = -2930, !.r_armour_2 = 200] }

Inputs == PhysicalInputs \cup NonPhysicalInputs

\* the seabed condition of lines 187 and 404
SeabedSplit == inp.burial_depth # 0 /\ inp.burial_depth > limit_fine

----------------------------------------------------------------------------
(* Derived quantities *)

\* the insulation radius computed without the conductor screen
SupportVariablesSkipping(in) ==
    LET rc == ConductorRadius(in.A_cond)
        rs == rc + in.cond_screen
        ri == rc + in.insulation
        rn == rc + in.cond_screen + in.insulation + in.insul_screen_NM
        rt == rc + in.cond_screen + in.insulation + in.insul_screen_NM
                 + in.insul_screen_ME
    IN  [r_cond |-> rc, r_cond_screen |-> rs, r_cond_insul |-> ri,
         r_cond_insu_screen_NM |-> rn, r_cond_total |-> rt,
         cond_center |-> 2 * rt + cond_surf]

\* lines 46-57
SupportVariables(in) ==
    LET rc == ConductorRadius(in.A_cond)
        rs == rc + in.cond_screen
        ri == rc + in.cond_screen + in.insulation
        rn == rc + in.cond_screen + in.insulation + in.insul_screen_NM
        rt == rc + in.cond_screen + in.insulation + in.insul_screen_NM
                 + in.insul_screen_ME
    IN  [r_cond |-> rc, r_cond_screen |-> rs, r_cond_insul |-> ri,
         r_cond_insu_screen_NM |-> rn, r_cond_total |-> rt,
         cond_center |-> 2 * rt + cond_surf]

\* line 150, in units of 1/20 model unit so that 0.5 * GridSize is integral:
\* MeshSize(f10) is (f10 / 10) * GridSize = (f10 / 10) * 0.3 * r_cond_total
MeshSize(f10) == (f10 * 6 * sup.r_cond_total) \div 10

\* line 155
delta_y_triangle == RDiv(sup.cond_center * Sqrt3Num, 6 * TrigDen)

\* cond_center * cos60 and cond_center * sin60
CCcos60 == RDiv(sup.cond_center * Cos60Num, TrigDen)
CCsin60 == RDiv(sup.cond_center * Sin60Num, TrigDen)

\* centre of conductor k (lines 201, 230, 259)
CondCentre(k) ==
    CASE k = 1 -> <<CCcos60, -delta_y_triangle>>
      [] k = 2 -> <<0, CCsin60 - delta_y_triangle>>
      [] k = 3 -> <<-CCcos60, -delta_y_triangle>>

\* outer radius of layer j of a conductor: 0 conductor, 1 conductor screen,
\* 2 insulation, 3 non-metallic screen, 4 metallic screen
LayerRadius(j) ==
    CASE j = 0 -> sup.r_cond
      [] j = 1 -> sup.r_cond_screen
      [] j = 2 -> sup.r_cond_insul
      [] j = 3 -> sup.r_cond_insu_screen_NM
      [] j = 4 -> sup.r_cond_total

\* extent of the conductor bundle along the y axis (lines 293-299, 307)
BundleExtent == CCsin60 + sup.r_cond_total - delta_y_triangle

----------------------------------------------------------------------------
(* The FEMM document *)

Label(kind, a, b) == [kind |-> kind, a |-> a, b |-> b]

L_outer == Label("outer", 0, 0)
L_fine == Label("fine", 0, 0)
L_seabed == Label("seabed", 0, 0)
L_cond(k, j) == Label("cond", k, j)
L_filling == Label("filling", 0, 0)
L_bedding == Label("bedding", 0, 0)
L_wire(ring, k) == Label("wire", ring, k)
L_interarmour == Label("interarmour", 0, 0)
L_over == Label("over", 0, 0)

NoProp == [mat |-> "<None>", mesh |-> 0, circ |-> "<None>", written |-> FALSE]

\* femm.mi_addblocklabel: a new label carries no property
mi_addblocklabel(pr, ls) ==
    [l \in (DOMAIN pr) \cup ls |-> IF l \in DOMAIN pr THEN pr[l] ELSE NoProp]

Line(x1, y1, x2, y2) == [t |-> "line", c |-> <<x1, y1, x2, y2>>]
Arc(x1, y1, x2, y2, ang, maxseg) ==
    [t |-> "arc", c |-> <<x1, y1, x2, y2, ang, maxseg>>]
\* an armour wire arc: both endpoints lie on the ray of wire k of the ring,
\* at distances d1 and d2 from the origin
WireArc(ring, k, d1, d2) == [t |-> "wirearc", c |-> <<ring, k, d1, d2>>]

\* the two 180 degree arcs of a circle through (x1,y1) and (x2,y2)
Circle(x1, y1, x2, y2, maxseg) ==
    { Arc(x1, y1, x2, y2, 180, maxseg), Arc(x2, y2, x1, y1, 180, maxseg) }

\* the four sides of the square of half-width w (lines 171-174, 178-181)
Square(w) ==
    { Line(w, w, w, -w), Line(w, w, -w, w),
      Line(-w, -w, w, -w), Line(-w, -w, -w, w) }

\* the seabed split line of line 191
SplitLine == Line(-limit_coarse, inp.burial_depth, limit_coarse, inp.burial_depth)

----------------------------------------------------------------------------
(* Initial state: the script has not started *)

NoSupport ==
    [r_cond |-> 0, r_cond_screen |-> 0, r_cond_insul |-> 0,
     r_cond_insu_screen_NM |-> 0, r_cond_total |-> 0, cond_center |-> 0]

NoArmour ==
    [R_armour |-> 0, NbrOfArmourElem |-> 0, R_armour_2 |-> 0,
     NbrOfArmourElem2 |-> 0, R_cable_total |-> 0]

NoLists ==
    [contour |-> <<>>, b_value |-> <<>>, e_value |-> <<>>,
     b_value_far |-> <<>>, e_value_far |-> <<>>,
     contour3 |-> <<>>, b_value3 |-> <<>>, e_value3 |-> <<>>]

NoAxes == [a \in 1..6 |-> <<>>]

InitWith(in) ==
    /\ inp = in
    /\ sup = NoSupport
    /\ arm = NoArmour
    /\ materials = << >>
    /\ labels = {}
    /\ prims = {}
    /\ props = << >>
    /\ selected = {}
    /\ circuits = << >>
    /\ pc = "support"
    /\ i = 0
    /\ p = 0
    /\ n = 0
    /\ nAnalyze = 0
    /\ loaded = FALSE
    /\ nQueries = 0
    /\ lists = NoLists
    /\ axes = NoAxes
    /\ files = {}
    /\ error = ""

Init == \E in \in Inputs : InitWith(in)

----------------------------------------------------------------------------
(* Geometry *)

\* lines 46-57
ComputeSupport ==
    /\ pc = "support"
    /\ sup' = SupportVariables(inp)
    /\ pc' = "materials"
    /\ UNCHANGED <<inp, arm, femmVars, loopVars, postVars, error>>

\* lines 127-146: the conductivity each material is registered with
MaterialLibrary ==
    [m \in {"copper_conductors", "XLPE", "M_screen", "NM_screen", "inner",
            "bedding", "armour", "over", "seawater", "seabed"} |->
        CASE m = "copper_conductors" -> seawater_conductivity
          [] m = "XLPE" -> XLPE_conductivity
          [] m = "M_screen" -> M_screen_conductivity
          [] m = "NM_screen" -> NM_screen_conductivity
          [] m = "inner" -> inner_conductivity
          [] m = "bedding" -> bedding_conductivity
          [] m = "armour" -> armour_conductivity
          [] m = "over" -> over_conductivity
          [] m = "seawater" -> seawater_conductivity
          [] m = "seabed" -> seabed_conductivity]

AddMaterials ==
    /\ pc = "materials"
    /\ materials' = MaterialLibrary
    /\ pc' = "environment"
    /\ UNCHANGED <<inp, sup, arm, labels, prims, props, selected, circuits,
                   loopVars, postVars, error>>

\* emit labels and primitives and move on
Emit(ls, ps, next) ==
    /\ labels' = labels \cup ls
    /\ props' = mi_addblocklabel(props, ls)
    /\ prims' = prims \cup ps
    /\ pc' = next

\* lines 170-181
DrawEnvironment ==
    /\ pc = "environment"
    /\ Emit({L_outer, L_fine}, Square(limit_coarse) \cup Square(limit_fine),
            "seabed")
    /\ UNCHANGED <<inp, sup, arm, materials, selected, circuits, loopVars,
                   postVars, error>>

\* lines 187-191
DrawSeabed ==
    /\ pc = "seabed"
    /\ IF SeabedSplit
       THEN Emit({L_seabed}, {SplitLine}, "conductor")
       ELSE Emit({}, {}, "conductor")
    /\ i' = 1
    /\ UNCHANGED <<inp, sup, arm, materials, selected, circuits, p, n,
                   postVars, error>>

\* the circle of radius r around conductor k, drawn through its two points on
\* the horizontal (conductors 1, 3) or vertical (conductor 2) diameter
CondCircle(k, r) ==
    LET c == CondCentre(k)
    IN  IF k = 2 THEN Circle(c[1], c[2] - r, c[1], c[2] + r, 3)
        ELSE Circle(c[1] - r, c[2], c[1] + r, c[2], 3)

\* lines 200-223, 229-252, 258-281: the five labels and circles of conductor i
DrawConductor ==
    /\ pc = "conductor"
    /\ Emit({L_cond(i, j) : j \in 0..4},
            UNION {CondCircle(i, LayerRadius(j)) : j \in 0..4},
            IF i = 3 THEN "filling" ELSE "conductor")
    /\ i' = i + 1
    /\ UNCHANGED <<inp, sup, arm, materials, selected, circuits, p, n,
                   postVars, error>>

\* line 286
DrawFilling ==
    /\ pc = "filling"
    /\ Emit({L_filling}, {}, "bedding")
    /\ UNCHANGED <<inp, sup, arm, materials, selected, circuits, loopVars,
                   postVars, error>>

\* lines 293-299
DrawBedding ==
    /\ pc = "bedding"
    /\ Emit({L_bedding},
            Circle(0, BundleExtent + dist1, 0, -BundleExtent - dist1, 3)
            \cup Circle(0, BundleExtent + inp.bedding, 0,
                        -BundleExtent - inp.bedding, 3),
            "pack1")
    /\ UNCHANGED <<inp, sup, arm, materials, selected, circuits, loopVars,
                   postVars, error>>

----------------------------------------------------------------------------
(* Armour rings and over sheath *)

\* the quotient rounded to the nearest integer instead of floored
PackCountRounded(R, r) ==
    FloorDiv(2 * (2 * PiNum * R) + PiDen * (2 * r + space),
             2 * PiDen * (2 * r + space))

\* lines 308-309, 333-334: int(floor(2 * pi * R / (2 * r + space)))
PackCount(R, r) == FloorDiv(2 * PiNum * R, PiDen * (2 * r + space))

\* angle of wire k of a ring of N wires, as the numerator of a fraction of
\* N degrees: (k - 1) * theta with theta = radians(360 / N) (lines 310, 314),
\* taken modulo a full turn (sin and cos are periodic)
WireAngleNum(N, k) == ((k - 1) * 360) % (360 * N)

\* the label of the wire of ring `ring` that sits at the angle of index k
WireAt(ring, N, k) == L_wire(ring, WireAngleNum(N, k))

\* an uncaught exception ends the run: the interpreter exits, and with it go
\* the lists and the figures it holds in memory; the FEMM document and the
\* files already written stay
Abort(e) ==
    /\ error' = e
    /\ pc' = "aborted"
    /\ lists' = NoLists
    /\ axes' = NoAxes

\* a count of 0 passes silently and the script goes on with an empty ring
PackArmour1Silent ==
    /\ pc = "pack1"
    /\ LET R == BundleExtent + inp.bedding + inp.r_armour
           N == PackCount(R, inp.r_armour)
       IN  /\ arm' = [arm EXCEPT !.R_armour = R, !.NbrOfArmourElem = N]
           /\ pc' = IF N >= 1 THEN "wire1" ELSE "interarmour"
           /\ i' = 1
    /\ UNCHANGED <<inp, sup, femmVars, p, n, postVars, error>>

\* lines 306-310: 360 / NbrOfArmourElem raises ZeroDivisionError when the
\* count is 0; int() of an infinite quotient raises OverflowError
PackArmour1 ==
    /\ pc = "pack1"
    /\ LET R == BundleExtent + inp.bedding + inp.r_armour
       IN  IF 2 * inp.r_armour + space = 0
           THEN /\ arm' = [arm EXCEPT !.R_armour = R]
                /\ Abort("OverflowError")
                /\ i' = i
           ELSE LET N == PackCount(R, inp.r_armour)
                IN  /\ arm' = [arm EXCEPT !.R_armour = R, !.NbrOfArmourElem = N]
                    /\ IF N = 0
                       THEN Abort("ZeroDivisionError") /\ i' = i
                       ELSE /\ pc' = IF N >= 1 THEN "wire1" ELSE "interarmour"
                            /\ i' = 1
                            /\ UNCHANGED <<error, lists, axes>>
    /\ UNCHANGED <<inp, sup, femmVars, p, n, nAnalyze, loaded, nQueries,
                   files>>

\* the label and the two arcs of wire k of a ring of radius R, wire radius r
WireLabels(ring, N, k) == { WireAt(ring, N, k) }
WirePrims(ring, N, k, R, r) ==
    { WireArc(ring, WireAngleNum(N, k), R - r + dist1, R + r - dist1),
      WireArc(ring, WireAngleNum(N, k), R + r - dist1, R - r + dist1) }

\* lines 313-316: one iteration of the loop over the first ring
DrawArmourWire1 ==
    /\ pc = "wire1"
    /\ Emit(WireLabels(1, arm.NbrOfArmourElem, i),
            WirePrims(1, arm.NbrOfArmourElem, i, arm.R_armour, inp.r_armour),
            IF i = arm.NbrOfArmourElem THEN "interarmour" ELSE "wire1")
    /\ i' = i + 1
    /\ UNCHANGED <<inp, sup, arm, materials, selected, circuits, p, n,
                   postVars, error>>

\* lines 322-324
DrawInterArmour ==
    /\ pc = "interarmour"
    /\ Emit({L_interarmour}, {},
            IF inp.r_armour_2 # 0 THEN "pack2" ELSE "oversheath")
    /\ UNCHANGED <<inp, sup, arm, materials, selected, circuits, loopVars,
                   postVars, error>>

\* lines 331-335
PackArmour2 ==
    /\ pc = "pack2"
    /\ LET R == arm.R_armour + inp.r_armour + space + inp.r_armour_2
       IN  IF 2 * inp.r_armour_2 + space = 0
           THEN /\ arm' = [arm EXCEPT !.R_armour_2 = R]
                /\ Abort("OverflowError")
                /\ i' = i
           ELSE LET N == PackCount(R, inp.r_armour_2)
                IN  /\ arm' = [arm EXCEPT !.R_armour_2 = R,
                                          !.NbrOfArmourElem2 = N]
                    /\ IF N = 0
                       THEN Abort("ZeroDivisionError") /\ i' = i
                       ELSE /\ pc' = IF N >= 1 THEN "wire2" ELSE "oversheath"
                            /\ i' = 1
                            /\ UNCHANGED <<error, lists, axes>>
    /\ UNCHANGED <<inp, sup, femmVars, p, n, nAnalyze, loaded, nQueries,
                   files>>

\* lines 338-341: one iteration of the loop over the second ring
DrawArmourWire2 ==
    /\ pc = "wire2"
    /\ Emit(WireLabels(2, arm.NbrOfArmourElem2, i),
            WirePrims(2, arm.NbrOfArmourElem2, i, arm.R_armour_2,
                      inp.r_armour_2),
            IF i = arm.NbrOfArmourElem2 THEN "oversheath" ELSE "wire2")
    /\ i' = i + 1
    /\ UNCHANGED <<inp, sup, arm, materials, selected, circuits, p, n,
                   postVars, error>>

\* outer extent of the outermost armour ring (lines 348-357, 369-378)
ArmourExtent ==
    IF inp.r_armour_2 # 0 THEN arm.R_armour_2 + inp.r_armour_2
    ELSE arm.R_armour + inp.r_armour

\* lines 348-357 and 369-378: over sheath circles and overall cable radius
DrawOverSheath ==
    /\ pc = "oversheath"
    /\ Emit({L_over},
            Circle(0, ArmourExtent + dist1, 0, -ArmourExtent - dist1, 2)
            \cup Circle(0, ArmourExtent + inp.over_sheath + 2 * dist1,
                        0, -ArmourExtent - inp.over_sheath - 2 * dist1, 2),
            "prop_outer")
    /\ arm' = [arm EXCEPT !.R_cable_total =
                              ArmourExtent + inp.over_sheath + dist1]
    /\ i' = 0
    /\ UNCHANGED <<inp, sup, materials, selected, circuits, p, n, postVars,
                   error>>

----------------------------------------------------------------------------
(* Region properties (lines 400-541) *)

\* femm.mi_selectlabel: toggles the membership of the addressed label in the
\* selection
mi_selectlabel(sel, l) == IF l \in sel THEN sel \ {l} ELSE sel \cup {l}

\* femm.mi_setblockprop: overwrites material, mesh size and circuit of every
\* selected label
mi_setblockprop(pr, sel, mat, mesh, circ) ==
    [l \in DOMAIN pr |->
        IF l \in sel
        THEN [mat |-> mat, mesh |-> mesh, circ |-> circ, written |-> TRUE]
        ELSE pr[l]]

Sel(l) == [op |-> "select", label |-> l, mat |-> "", mesh |-> 0, circ |-> ""]
SetProp(mat, mesh, circ) ==
    [op |-> "set", label |-> L_outer, mat |-> mat, mesh |-> mesh,
     circ |-> circ]

\* the FEMM calls of a list of operations, applied in order to the selection
\* and the block properties
RECURSIVE ApplyOps(_, _, _)
ApplyOps(ops, sel, pr) ==
    IF ops = <<>> THEN [sel |-> sel, props |-> pr]
    ELSE LET o == Head(ops)
         IN  IF o.op = "select"
             THEN ApplyOps(Tail(ops), mi_selectlabel(sel, o.label), pr)
             ELSE ApplyOps(Tail(ops), sel,
                           mi_setblockprop(pr, sel, o.mat, o.mesh, o.circ))

\* the body of each for-loop of lines 400-541; mi_clearselected is only
\* referenced (lines 427, 448, 534, 538), never called
OuterOps ==          \* lines 401-402
    << Sel(L_outer), SetProp("seawater", MeshSize(100), "<None>") >>
FineOps ==           \* lines 407-408 and 415-416
    << Sel(L_fine),
       SetProp(IF SeabedSplit THEN "seabed" ELSE "seawater", MeshSize(60),
               "<None>") >>
SeabedOps ==         \* lines 410-411
    << Sel(L_seabed), SetProp("seabed", MeshSize(100), "<None>") >>
Armour1Ops(k) ==     \* lines 425-427
    << Sel(WireAt(1, arm.NbrOfArmourElem, k)),
       SetProp("armour", MeshSize(5), "<None>") >>
InterArmourOps ==    \* lines 433-434
    << Sel(L_interarmour), SetProp("seawater", MeshSize(10), "<None>") >>
Armour2Ops(k) ==     \* lines 446-448
    << Sel(WireAt(2, arm.NbrOfArmourElem2, k)),
       SetProp("armour", MeshSize(5), "<None>") >>
OverOps ==           \* lines 456-457 and 467-468
    << Sel(L_over), SetProp("over", MeshSize(10), "<None>") >>
BeddingOps ==        \* lines 476-477
    << Sel(L_bedding), SetProp("bedding", MeshSize(10), "<None>") >>
FillingOps ==        \* lines 483-484
    << Sel(L_filling), SetProp("bedding", MeshSize(10), "<None>") >>
MScreenOps ==        \* lines 492-498
    << Sel(L_cond(1, 4)), Sel(L_cond(2, 4)), Sel(L_cond(3, 4)),
       SetProp("M_screen", MeshSize(10), "<None>") >>
NMScreenOps ==       \* lines 502-508
    << Sel(L_cond(1, 3)), Sel(L_cond(2, 3)), Sel(L_cond(3, 3)),
       SetProp("NM_screen", MeshSize(10), "<None>") >>
XLPEOps ==           \* lines 512-518
    << Sel(L_cond(1, 2)), Sel(L_cond(2, 2)), Sel(L_cond(3, 2)),
       SetProp("XLPE", MeshSize(10), "<None>") >>
CondScreenOps ==     \* lines 522-528
    << Sel(L_cond(1, 1)), Sel(L_cond(2, 1)), Sel(L_cond(3, 1)),
       SetProp("NM_screen", MeshSize(10), "<None>") >>
ConductorsOps ==     \* lines 532-541
    << Sel(L_cond(1, 0)), SetProp("copper_conductors", MeshSize(5), "icoil1"),
       Sel(L_cond(2, 0)), SetProp("copper_conductors", MeshSize(5), "icoil2"),
       Sel(L_cond(3, 0)), SetProp("copper_conductors", MeshSize(5), "icoil3") >>

\* the loop body of block b at loop index k
BlockOps(b, k) ==
    CASE b = "prop_outer" -> OuterOps
      [] b = "prop_fine" -> FineOps
      [] b = "prop_seabed" -> SeabedOps
      [] b = "prop_armour1" -> Armour1Ops(k)
      [] b = "prop_interarmour" -> InterArmourOps
      [] b = "prop_armour2" -> Armour2Ops(k)
      [] b = "prop_over" -> OverOps
      [] b = "prop_bedding" -> BeddingOps
      [] b = "prop_filling" -> FillingOps
      [] b = "prop_M_screen" -> MScreenOps
      [] b = "prop_NM_screen" -> NMScreenOps
      [] b = "prop_XLPE" -> XLPEOps
      [] b = "prop_cond_screen" -> CondScreenOps
      [] b = "prop_conductors" -> ConductorsOps

\* the armour loops running once over the ring instead of twice
BlockLastOnce(b) ==
    CASE b = "prop_armour1" -> arm.NbrOfArmourElem
      [] b = "prop_armour2" -> arm.NbrOfArmourElem2
      [] OTHER -> 1

\* the armour loops running one index too far: range(1, 2*N + 2)
BlockLastOneMore(b) ==
    CASE b = "prop_armour1" -> 2 * arm.NbrOfArmourElem + 1
      [] b = "prop_armour2" -> 2 * arm.NbrOfArmourElem2 + 1
      [] OTHER -> 1

\* first and last value of the loop variable of block b: range(1, 2*N + 1)
\* for the armour loops (lines 423, 444), range(2) for every other block
BlockFirst(b) == IF b \in {"prop_armour1", "prop_armour2"} THEN 1 ELSE 0
BlockLast(b) ==
    CASE b = "prop_armour1" -> 2 * arm.NbrOfArmourElem
      [] b = "prop_armour2" -> 2 * arm.NbrOfArmourElem2
      [] OTHER -> 1

\* the blocks in the order of the script, with the two conditionals of
\* lines 404 and 437
BlockOrder ==
    << "prop_outer", "prop_fine" >>
    \o (IF SeabedSplit THEN << "prop_seabed" >> ELSE << >>)
    \o << "prop_armour1", "prop_interarmour" >>
    \o (IF inp.r_armour_2 # 0 THEN << "prop_armour2" >> ELSE << >>)
    \o << "prop_over", "prop_bedding", "prop_filling", "prop_M_screen",
          "prop_NM_screen", "prop_XLPE", "prop_cond_screen",
          "prop_conductors" >>

BlockIndex(b) == CHOOSE k \in 1..Len(BlockOrder) : BlockOrder[k] = b

\* the first block after position k whose loop runs at least once, or the
\* circuit definitions after the last block
RECURSIVE BlockAfter(_)
BlockAfter(k) ==
    IF k >= Len(BlockOrder) THEN "circuits"
    ELSE LET b == BlockOrder[k + 1]
         IN  IF BlockFirst(b) <= BlockLast(b) THEN b ELSE BlockAfter(k + 1)

\* one iteration of the for-loop of block b
AssignBlock(b) ==
    /\ pc = b
    /\ LET r == ApplyOps(BlockOps(b, i), selected, props)
       IN  /\ selected' = r.sel
           /\ props' = r.props
    /\ IF i < BlockLast(b)
       THEN /\ i' = i + 1
            /\ pc' = pc
       ELSE LET nb == BlockAfter(BlockIndex(b))
            IN  /\ pc' = nb
                /\ i' = IF nb = "circuits" THEN i ELSE BlockFirst(nb)
    /\ UNCHANGED <<inp, sup, arm, materials, labels, prims, circuits, p, n,
                   postVars, error>>

AssignOuter == AssignBlock("prop_outer")
AssignFine == AssignBlock("prop_fine")
AssignSeabed == AssignBlock("prop_seabed")
AssignArmour1 == AssignBlock("prop_armour1")
AssignInterArmour == AssignBlock("prop_interarmour")
AssignArmour2 == AssignBlock("prop_armour2")
AssignOver == AssignBlock("prop_over")
AssignBedding == AssignBlock("prop_bedding")
AssignFilling == AssignBlock("prop_filling")
AssignMScreen == AssignBlock("prop_M_screen")
AssignNMScreen == AssignBlock("prop_NM_screen")
AssignXLPE == AssignBlock("prop_XLPE")
AssignCondScreen == AssignBlock("prop_cond_screen")
AssignConductors == AssignBlock("prop_conductors")

----------------------------------------------------------------------------
(* Circuits and solver *)

\* lines 546-548: the phasors in thousandths of the unit of AMPS;
\* 0.866 is the script's literal
CircuitPhasors(A) ==
    [c \in {"icoil1", "icoil2", "icoil3"} |->
        CASE c = "icoil1" -> [re |-> 1000 * A, im |-> 0]
          [] c = "icoil2" -> [re |-> -500 * A, im |-> 866 * A]
          [] c = "icoil3" -> [re |-> -500 * A, im |-> -866 * A]]

AddCircuits ==
    /\ pc = "circuits"
    /\ circuits' = CircuitPhasors(inp.AMPS)
    /\ pc' = "analyze"
    /\ UNCHANGED <<inp, sup, arm, materials, labels, prims, props, selected,
                   loopVars, postVars, error>>

\* lines 559-562: mi_saveas, then the solver runs and returns
Analyze ==
    /\ pc = "analyze"
    /\ nAnalyze' = nAnalyze + 1
    /\ pc' = "load"
    /\ UNCHANGED <<inp, sup, arm, femmVars, loopVars, loaded, nQueries, lists,
                   axes, files, error>>

\* line 562: the solver is invoked and fails
AnalyzeFails ==
    /\ pc = "analyze"
    /\ nAnalyze' = nAnalyze + 1
    /\ Abort("SolverError")
    /\ UNCHANGED <<inp, sup, arm, femmVars, loopVars, loaded, nQueries, files>>

\* the solution is never loaded
LoadSolutionSkipped ==
    /\ pc = "load"
    /\ pc' = "pointvalues"
    /\ UNCHANGED <<inp, sup, arm, femmVars, loopVars, nAnalyze, loaded,
                   nQueries, lists, axes, files, error>>

\* line 564
LoadSolution ==
    /\ pc = "load"
    /\ loaded' = TRUE
    /\ pc' = "pointvalues"
    /\ UNCHANGED <<inp, sup, arm, femmVars, loopVars, nAnalyze, nQueries,
                   lists, axes, files, error>>

\* lines 566-575: mo_getpointvalues(0, 30), the six figures, p = 1
GetPointValues ==
    /\ pc = "pointvalues"
    /\ nQueries' = nQueries + 1
    /\ p' = 1
    /\ pc' = "offset"
    /\ UNCHANGED <<inp, sup, arm, femmVars, i, n, nAnalyze, loaded, lists,
                   axes, files, error>>

----------------------------------------------------------------------------
(* Sampling and reporting (lines 575-673) *)

NumOffsets == 3             \* range(1, 4)
LateralHalfSpan == 500      \* range(-500, 500, 1)
NearStep == 100             \* 100 * p
FarStep == 1000             \* 1000 * p
RadialStart == 100          \* int(R_cable_total) + 100
RadialEnd == 3000           \* range(..., 3000, 1)

\* the far offsets one step too far: int(R_cable_total) + 1000 * (p + 1)
FarOffsetOneMore(q) == IntMM(arm.R_cable_total) + FarStep * (q + 1)

\* int(R_cable_total) + step * p, in mm
NearOffset(q) == IntMM(arm.R_cable_total) + NearStep * q
FarOffset(q) == IntMM(arm.R_cable_total) + FarStep * q

\* the two branches of the normalisation swapped
ConductivitySwapped(y) ==
    IF inp.burial_depth # 0 /\ y * Scale <= inp.burial_depth
    THEN seawater_conductivity
    ELSE seabed_conductivity

\* lines 590-593, 596-599, 623-626: the conductivity that divides the current
\* density sampled at height y (mm)
Conductivity(y) ==
    IF inp.burial_depth # 0 /\ y * Scale <= inp.burial_depth
    THEN seabed_conductivity
    ELSE seawater_conductivity

\* a magnetic sample is the point queried with mo_getb, an electric sample the
\* point queried with mo_getj and the conductivity it is divided by
BSample(x, y) == <<x, y>>
ESample(x, y) == <<x, y, Conductivity(y)>>

\* the values n takes in a loop over range(from, to), in order
Range(from, to) == [k \in 1..(to - from) |-> from + k - 1]

\* the magnetic and the electric samples a loop appends along the positions
\* xs at height y, and along the heights ys at position x
BSamplesAlong(xs, y) == [k \in DOMAIN xs |-> BSample(xs[k], y)]
ESamplesAlong(xs, y) == [k \in DOMAIN xs |-> ESample(xs[k], y)]
BSamplesUp(x, ys) == [k \in DOMAIN ys |-> BSample(x, ys[k])]
ESamplesUp(x, ys) == [k \in DOMAIN ys |-> ESample(x, ys[k])]

\* the lists of the previous offset are kept
BeginOffsetKeep ==
    /\ pc = "offset"
    /\ pc' = "sample"
    /\ UNCHANGED <<inp, sup, arm, femmVars, loopVars, nAnalyze, loaded,
                   nQueries, lists, axes, files, error>>

\* lines 577-581: fresh lists for offset p
BeginOffset ==
    /\ pc = "offset"
    /\ lists' = [lists EXCEPT !.contour = <<>>, !.b_value = <<>>,
                              !.e_value = <<>>, !.b_value_far = <<>>,
                              !.e_value_far = <<>>]
    /\ pc' = "sample"
    /\ UNCHANGED <<inp, sup, arm, femmVars, loopVars, nAnalyze, loaded,
                   nQueries, axes, files, error>>

\* lines 583-606: the loop over the lateral positions of offset p, four
\* queries and five appends per position; n ends at the last position
SampleNearFar ==
    /\ pc = "sample"
    /\ nQueries' = nQueries + 4 * (2 * LateralHalfSpan)
    /\ LET xs == Range(-LateralHalfSpan, LateralHalfSpan)
       IN  lists' = [lists EXCEPT
                       !.contour = @ \o xs,
                       !.b_value = @ \o BSamplesAlong(xs, NearOffset(p)),
                       !.e_value = @ \o ESamplesAlong(xs, NearOffset(p)),
                       !.b_value_far = @ \o BSamplesAlong(xs, FarOffset(p)),
                       !.e_value_far = @ \o ESamplesAlong(xs, FarOffset(p))]
    /\ n' = LateralHalfSpan - 1
    /\ pc' = "plot"
    /\ UNCHANGED <<inp, sup, arm, femmVars, i, p, nAnalyze, loaded, axes,
                   files, error>>

\* lines 584-589: a query of the near/far loop returns no value at lateral
\* position m, after the positions before m have been sampled
SampleNearFarFails ==
    /\ pc = "sample"
    /\ \E m \in (-LateralHalfSpan)..(LateralHalfSpan - 1) :
          /\ n' = m
          /\ nQueries' = nQueries + 4 * (m + LateralHalfSpan) + 1
    /\ Abort("QueryError")
    /\ UNCHANGED <<inp, sup, arm, femmVars, i, p, nAnalyze, loaded, files>>

\* ax.plot(xs, ys): the axes keep a copy of the data
Plot(ax, a, xs, ys) == [ax EXCEPT ![a] = Append(@, [x |-> xs, y |-> ys])]

\* the first report written inside the offset loop
PlotProfilesAndSave ==
    /\ pc = "plot"
    /\ axes' = Plot(Plot(Plot(Plot(axes, 1, lists.contour, lists.b_value),
                              2, lists.contour, lists.e_value),
                         3, lists.contour, lists.b_value_far),
                    4, lists.contour, lists.e_value_far)
    /\ files' = files \cup {"magnetic_field_close.pdf"}
    /\ p' = p + 1
    /\ pc' = IF p < NumOffsets THEN "offset" ELSE "radial"
    /\ UNCHANGED <<inp, sup, arm, femmVars, i, n, nAnalyze, loaded, nQueries,
                   lists, error>>

\* lines 608-611, then the next p or the radial scan
PlotProfiles ==
    /\ pc = "plot"
    /\ axes' = Plot(Plot(Plot(Plot(axes, 1, lists.contour, lists.b_value),
                              2, lists.contour, lists.e_value),
                         3, lists.contour, lists.b_value_far),
                    4, lists.contour, lists.e_value_far)
    /\ p' = p + 1
    /\ pc' = IF p < NumOffsets THEN "offset" ELSE "radial"
    /\ UNCHANGED <<inp, sup, arm, femmVars, i, n, nAnalyze, loaded, nQueries,
                   lists, files, error>>

\* first height of the radial scan (line 618), in mm
RadialFrom == IntMM(arm.R_cable_total) + RadialStart

\* lines 614-616: fresh lists for the radial scan
BeginRadial ==
    /\ pc = "radial"
    /\ lists' = [lists EXCEPT !.contour3 = <<>>, !.b_value3 = <<>>,
                              !.e_value3 = <<>>]
    /\ pc' = "sample_radial"
    /\ UNCHANGED <<inp, sup, arm, femmVars, loopVars, nAnalyze, loaded,
                   nQueries, axes, files, error>>

\* lines 618-630: the loop over the heights of the radial scan, two queries
\* and three appends per height; an empty range leaves n as it is
SampleRadial ==
    /\ pc = "sample_radial"
    /\ LET from == RadialFrom
           to == IF RadialEnd > RadialFrom THEN RadialEnd ELSE RadialFrom
           ys == Range(from, to)
       IN  /\ nQueries' = nQueries + 2 * (to - from)
           /\ lists' = [lists EXCEPT
                          !.contour3 = @ \o ys,
                          !.b_value3 = @ \o BSamplesUp(0, ys),
                          !.e_value3 = @ \o ESamplesUp(0, ys)]
           /\ n' = IF to > from THEN to - 1 ELSE n
    /\ pc' = "plot_radial"
    /\ UNCHANGED <<inp, sup, arm, femmVars, i, p, nAnalyze, loaded, axes,
                   files, error>>

\* lines 619-622: a query of the radial loop returns no value at height m,
\* after the heights before m have been sampled
SampleRadialFails ==
    /\ pc = "sample_radial"
    /\ \E m \in RadialFrom..(RadialEnd - 1) :
          /\ n' = m
          /\ nQueries' = nQueries + 2 * (m - RadialFrom) + 1
    /\ Abort("QueryError")
    /\ UNCHANGED <<inp, sup, arm, femmVars, i, p, nAnalyze, loaded, files>>

\* lines 632-633
PlotRadial ==
    /\ pc = "plot_radial"
    /\ axes' = Plot(Plot(axes, 5, lists.contour3, lists.b_value3),
                    6, lists.contour3, lists.e_value3)
    /\ i' = 1
    /\ pc' = "savefig"
    /\ UNCHANGED <<inp, sup, arm, femmVars, p, n, nAnalyze, loaded, nQueries,
                   lists, files, error>>

\* lines 640, 646, 652, 658, 665, 673
ReportFiles ==
    << "magnetic_field_close.pdf", "electric_field_close.pdf",
       "magnetic_field_far.pdf", "electric_field_far.pdf",
       "radial_magnetic_field.pdf", "radial_electric_field.pdf" >>

\* fig<i>.savefig(...)
SaveFig ==
    /\ pc = "savefig"
    /\ files' = files \cup {ReportFiles[i]}
    /\ i' = i + 1
    /\ pc' = IF i < Len(ReportFiles) THEN "savefig" ELSE "done"
    /\ UNCHANGED <<inp, sup, arm, femmVars, p, n, nAnalyze, loaded, nQueries,
                   lists, axes, error>>

----------------------------------------------------------------------------
(* The script *)

Geometry ==
    \/ ComputeSupport
    \/ AddMaterials
    \/ DrawEnvironment
    \/ DrawSeabed
    \/ DrawConductor
    \/ DrawFilling
    \/ DrawBedding
    \/ PackArmour1
    \/ DrawArmourWire1
    \/ DrawInterArmour
    \/ PackArmour2
    \/ DrawArmourWire2
    \/ DrawOverSheath

Properties ==
    \/ AssignOuter
    \/ AssignFine
    \/ AssignSeabed
    \/ AssignArmour1
    \/ AssignInterArmour
    \/ AssignArmour2
    \/ AssignOver
    \/ AssignBedding
    \/ AssignFilling
    \/ AssignMScreen
    \/ AssignNMScreen
    \/ AssignXLPE
    \/ AssignCondScreen
    \/ AssignConductors
    \/ AddCircuits

Solve ==
    \/ Analyze
    \/ AnalyzeFails
    \/ LoadSolution

Reporting ==
    \/ GetPointValues
    \/ BeginOffset
    \/ SampleNearFar
    \/ SampleNearFarFails
    \/ PlotProfiles
    \/ BeginRadial
    \/ SampleRadial
    \/ SampleRadialFails
    \/ PlotRadial
    \/ SaveFig

Next == Geometry \/ Properties \/ Solve \/ Reporting

Spec == Init /\ [][Next]_vars

\* The geometry emission alone, over a range of ring and wire radii: a thin
\* cable (no conductor area, no conductor layers) whose bedding thickness and
\* armour wire radii vary by single units, and the cable of the script with
\* armour wires of 1, 2 and 3 mm.
MaxBedding == 12
MaxWireRadius == 12

\* burial depths from 0 in steps of 100 mm
MaxBurialSteps == 40
SweptBurialDepths == { 100 * Scale * k : k \in 0..MaxBurialSteps }

ThinCable ==
    [DefaultInput EXCEPT !.A_cond = 0, !.cond_screen = 0, !.insulation = 0,
                         !.insul_screen_NM = 0, !.insul_screen_ME = 0]

GeometryInputs ==
    { [ThinCable EXCEPT !.bedding = b, !.r_armour = r, !.r_armour_2 = r2] :
        b \in (-MaxBedding)..MaxBedding, r \in 0..MaxWireRadius,
        r2 \in {0, 3} }
    \cup { [DefaultInput EXCEPT !.r_armour = r, !.r_armour_2 = r2] :
             r \in {100, 200, 300}, r2 \in {0, 200} }
    \cup { [DefaultInput EXCEPT !.burial_depth = bd] : bd \in SweptBurialDepths }
    \cup { [DefaultInput EXCEPT !.bedding = b] : b \in 1..MaxBedding }

InitGeometry == \E in \in GeometryInputs : InitWith(in)

SpecGeometry == InitGeometry /\ [][Geometry]_vars

----------------------------------------------------------------------------
(* Positions of the script used by the properties below *)

GeometryPcs ==
    { "support", "materials", "environment", "seabed", "conductor", "filling",
      "bedding", "pack1", "wire1", "interarmour", "pack2", "wire2",
      "oversheath" }

\* the property-assignment phase has finished
PropsDone == pc \in {"circuits", "analyze"} \/ nAnalyze > 0

\* the three circuits are defined
CircuitsDone == pc = "analyze" \/ nAnalyze > 0

\* line 310 has been executed for the first ring
Packed1 ==
    pc \notin { "support", "materials", "environment", "seabed", "conductor",
                "filling", "bedding", "pack1" }

\* line 335 has been executed for the second ring
Packed2 == L_interarmour \in labels /\ inp.r_armour_2 # 0 /\ pc # "pack2"

WireLabelsOf(ring) == { l \in labels : l.kind = "wire" /\ l.a = ring }
WirePrimsOf(ring) == { q \in prims : q.t = "wirearc" /\ q.c[1] = ring }
\* the over sheath circles are the only arcs drawn with maxseg = 2
OverSheathPrims == { q \in prims : q.t = "arc" /\ q.c[6] = 2 }

\* a profile is complete: it is being handed to the plot, or has been
ProfilesComplete == pc \in {"plot", "plot_radial", "savefig", "done"}

\* the electric profiles: the lists of the script and the lines plotted on
\* ax2, ax4 and ax6
EProfiles ==
    {lists.e_value, lists.e_value_far, lists.e_value3}
    \cup UNION { { axes[a][q].y : q \in DOMAIN axes[a] } : a \in {2, 4, 6} }

----------------------------------------------------------------------------
(* Claims *)

\* C1: once the property assignment has finished, conductor 1 is bound to
\* circuit icoil1, conductor 2 to icoil2 and conductor 3 to icoil3.
C1_ConductorCircuits ==
    PropsDone =>
        /\ props[L_cond(1, 0)].circ = "icoil1"
        /\ props[L_cond(2, 0)].circ = "icoil2"
        /\ props[L_cond(3, 0)].circ = "icoil3"

\* the material named in the assignment block of label l (lines 400-541)
OwnMaterial(l) ==
    CASE l.kind = "outer" -> "seawater"
      [] l.kind = "fine" -> IF SeabedSplit THEN "seabed" ELSE "seawater"
      [] l.kind = "seabed" -> "seabed"
      [] l.kind = "wire" -> "armour"
      [] l.kind = "interarmour" -> "seawater"
      [] l.kind = "over" -> "over"
      [] l.kind = "bedding" -> "bedding"
      [] l.kind = "filling" -> "bedding"
      [] l.kind = "cond" ->
            CASE l.b = 0 -> "copper_conductors"
              [] l.b = 1 -> "NM_screen"
              [] l.b = 2 -> "XLPE"
              [] l.b = 3 -> "NM_screen"
              [] l.b = 4 -> "M_screen"

\* the labels the geometry emission adds (lines 170-381)
EmittedLabels ==
    {L_outer, L_fine, L_filling, L_bedding, L_interarmour, L_over}
    \cup (IF SeabedSplit THEN {L_seabed} ELSE {})
    \cup { L_cond(k, j) : k \in 1..3, j \in 0..4 }
    \cup { WireAt(1, arm.NbrOfArmourElem, k) : k \in 1..arm.NbrOfArmourElem }
    \cup (IF inp.r_armour_2 # 0
          THEN { WireAt(2, arm.NbrOfArmourElem2, k) :
                   k \in 1..arm.NbrOfArmourElem2 }
          ELSE {})

\* C2: when the property assignment has finished, every label added by the
\* geometry emission has had a material and a mesh size written by a
\* set-block-property call, its material is the one of its own assignment
\* block, and exactly the three conductor labels carry a circuit.
C2_EveryLabelAssigned ==
    PropsDone =>
        /\ labels = EmittedLabels
        /\ \A l \in labels :
              /\ props[l].written
              /\ props[l].mat = OwnMaterial(l)
              /\ (props[l].circ # "<None>") <=> (l.kind = "cond" /\ l.b = 0)

C2_Witness ==
    /\ pc = "analyze"
    /\ SeabedSplit
    /\ inp.r_armour_2 # 0
    /\ L_seabed \in labels
    /\ Cardinality(WireLabelsOf(2)) > 1
    /\ \A l \in labels : props[l].written

\* number of field queries of a complete run (lines 566, 584-587, 619-620)
AllQueries ==
    1 + 4 * NumOffsets * (2 * LateralHalfSpan)
      + 2 * (RadialEnd - RadialFrom)

C3_Ordered ==
    /\ nAnalyze <= 1
    /\ nQueries > 0 => nAnalyze = 1 /\ loaded
    /\ loaded => nAnalyze = 1
    /\ nAnalyze = 1 =>
          /\ labels = EmittedLabels
          /\ \A l \in labels : props[l].written
          /\ DOMAIN circuits = {"icoil1", "icoil2", "icoil3"}

C3_NothingEmittedAfterSolve ==
    nAnalyze >= 1 => UNCHANGED <<materials, labels, prims, props, circuits>>

\* C3: geometry, labels, region properties and the three circuits are all
\* emitted before the solve invocation, which happens at most once; nothing
\* is emitted after it, and no field query is issued before the solver has
\* run and the solution is loaded.
C3_SolveAfterAssemblyBeforeSampling ==
    [][C3_Ordered /\ C3_Ordered' /\ C3_NothingEmittedAfterSolve]_vars

C3_Witness == pc = "done" /\ nAnalyze = 1 /\ loaded /\ nQueries = AllQueries

\* C4: a run that has aborted has written no report file, and a report file
\* is written only after the near/far loops and the radial loop have
\* completed.
C4_NoPartialReports ==
    /\ error # "" => files = {}
    /\ files # {} =>
          /\ pc \in {"savefig", "done"}
          /\ nQueries = AllQueries
          /\ \A a \in 1..4 : Len(axes[a]) = NumOffsets
          /\ \A a \in 5..6 : Len(axes[a]) = 1

\* the run aborted at the last query of the radial scan
C4_Witness ==
    /\ pc = "aborted"
    /\ error = "QueryError"
    /\ n = RadialEnd - 1
    /\ nQueries = AllQueries - 1
    /\ files = {}

\* lines 29-37: an input the spec calls non-physical
NegativeThickness(in) ==
    \/ in.cond_screen < 0
    \/ in.insulation < 0
    \/ in.insul_screen_NM < 0
    \/ in.insul_screen_ME < 0
    \/ in.bedding < 0
    \/ in.over_sheath < 0

NonPhysical ==
    \/ NegativeThickness(inp)
    \/ inp.A_cond = 0
    \/ error = "ZeroDivisionError"

\* C5: for a non-physical configuration no geometry primitive or label is
\* emitted, the run aborts before the geometry emission, and the solver is
\* never invoked.
C5_ConfigErrorBeforeGeometry ==
    NonPhysical =>
        /\ labels = {}
        /\ prims = {}
        /\ nAnalyze = 0
        /\ pc \in {"support", "materials", "environment", "aborted"}

\* the run has ended at the packing step of the ring with nothing of that
\* ring, nothing later, no region property and no solver run
AbortedAtPack(ring) ==
    /\ pc = "aborted"
    /\ error = "ZeroDivisionError"
    /\ WireLabelsOf(ring) = {}
    /\ WirePrimsOf(ring) = {}
    /\ ring = 1 => L_interarmour \notin labels /\ WireLabelsOf(2) = {}
    /\ L_over \notin labels
    /\ OverSheathPrims = {}
    /\ \A l \in labels : ~props[l].written
    /\ selected = {}
    /\ nAnalyze = 0

C6_State ==
    /\ Packed1 /\ arm.NbrOfArmourElem = 0 => AbortedAtPack(1)
    /\ Packed2 /\ arm.NbrOfArmourElem2 = 0 => AbortedAtPack(2)

\* C6: when the packed count of the first ring, or of the second ring when
\* it is requested, is 0, the run ends with an error at that ring's packing
\* step: no wire of the ring and nothing later is emitted, no region property
\* is assigned, the solver is never invoked, and no step follows.
C6_ZeroCountAborts == [][C6_State /\ C6_State' /\ pc # "aborted"]_vars

C6_Witness1 == Packed1 /\ arm.NbrOfArmourElem = 0 /\ pc = "aborted"

\* squared magnitude of a phasor
MagSq(c) == c.re * c.re + c.im * c.im

\* C8: the three circuit phasors sum to zero and have the same magnitude.
C8_BalancedPhasors ==
    CircuitsDone =>
        /\ circuits["icoil1"].re + circuits["icoil2"].re
             + circuits["icoil3"].re = 0
        /\ circuits["icoil1"].im + circuits["icoil2"].im
             + circuits["icoil3"].im = 0
        /\ MagSq(circuits["icoil1"]) = MagSq(circuits["icoil2"])
        /\ MagSq(circuits["icoil2"]) = MagSq(circuits["icoil3"])

\* no split line is drawn, no seabed label exists, no label has the seabed
\* material
NoSeabedRegion ==
    /\ { q \in prims : q.t = "line" } \subseteq
          Square(limit_coarse) \cup Square(limit_fine)
    /\ L_seabed \notin labels
    /\ \A l \in labels : props[l].mat # "seabed"

BySeawater(e) == e[3] = seawater_conductivity
NotBySeabed(e) == e[3] # seabed_conductivity

\* C9: with burial depth 0 there is no seabed split line, no seabed label, no
\* label with the seabed material, and every electric sample of every
\* complete near, far and radial profile is divided by the seawater
\* conductivity.
C9_SurfaceLaid ==
    inp.burial_depth = 0 =>
        /\ NoSeabedRegion
        /\ ProfilesComplete =>
              \A s \in EProfiles : \A k \in DOMAIN s : BySeawater(s[k])

C9_Witness ==
    /\ inp.burial_depth = 0
    /\ pc = "done"
    /\ Len(axes[2]) = NumOffsets /\ Len(axes[4]) = NumOffsets
    /\ Len(axes[6]) = 1
    /\ Len(axes[6][1].y) > 0

\* C10: with a burial depth that is positive and at most limit_fine there is
\* no split line, no label with the seabed material, and no electric sample
\* of a complete near, far or radial profile is divided by the seabed
\* conductivity.
C10_ShallowBurial ==
    (0 < inp.burial_depth /\ inp.burial_depth <= limit_fine) =>
        /\ NoSeabedRegion
        /\ ProfilesComplete =>
              \A s \in EProfiles : \A k \in DOMAIN s : NotBySeabed(s[k])


\* the labels of a ring of N wires at the angles (k - 1) * 360 / N degrees,
\* k = 1..N
RingLabels(ring, N) == { L_wire(ring, (k - 1) * 360) : k \in 1..N }

\* N is the largest count of wires of radius r, a gap of `space` apart, that
\* fits the perimeter of the circle of radius R (pi as PiNum / PiDen)
Packs(R, r, N) ==
    /\ N * (2 * r + space) * PiDen <= 2 * PiNum * R
    /\ 2 * PiNum * R < (N + 1) * (2 * r + space) * PiDen

C7_Ring(ring, packed, R, r, N, looping) ==
    (packed /\ R > 0 /\ r >= 0) =>
        /\ Packs(R, r, N)
        /\ ~looping =>
              /\ WireLabelsOf(ring) = RingLabels(ring, N)
              /\ Cardinality(WireLabelsOf(ring)) = N
        /\ looping => WireLabelsOf(ring) = RingLabels(ring, i - 1)

\* C7: for a ring radius R > 0 and a wire radius r >= 0 the packed count N
\* satisfies N*(2r+g) <= 2*pi*R < (N+1)*(2r+g), and exactly N wire labels are
\* emitted for the ring, at the angles (k-1)*360/N degrees, k = 1..N.
C7_PackedCount ==
    /\ C7_Ring(1, Packed1, arm.R_armour, inp.r_armour, arm.NbrOfArmourElem,
               pc = "wire1")
    /\ C7_Ring(2, Packed2, arm.R_armour_2, inp.r_armour_2,
               arm.NbrOfArmourElem2, pc = "wire2")

C7_Witness ==
    /\ pc = "prop_outer"
    /\ arm.R_armour > 0 /\ arm.NbrOfArmourElem >= 3
    /\ WireLabelsOf(1) = RingLabels(1, arm.NbrOfArmourElem)
    /\ inp.r_armour_2 > 0 /\ arm.NbrOfArmourElem2 > arm.NbrOfArmourElem
    /\ WireLabelsOf(2) = RingLabels(2, arm.NbrOfArmourElem2)

\* the points of the outer label (line 170) and of the seabed label (line 190)
OuterLabelAt == <<(limit_coarse * 4) \div 5, (limit_coarse * 4) \div 5>>
SeabedLabelAt == <<(limit_coarse * 4) \div 5, -((limit_coarse * 4) \div 5)>>

\* C11: when the seabed split is emitted, the split line lies inside the
\* coarse square, the outer (seawater) label lies strictly above the line
\* y = burial_depth and the seabed label strictly below it.
C11_SplitSeparates ==
    SplitLine \in prims =>
        /\ -limit_coarse <= inp.burial_depth
        /\ inp.burial_depth <= limit_coarse
        /\ OuterLabelAt[2] > inp.burial_depth
        /\ SeabedLabelAt[2] < inp.burial_depth

----------------------------------------------------------------------------
(* The derived radii alone (lines 46-57), over conductor areas of 0, 50 and
   200 mm^2 and layer thicknesses varied by single units, negative ones
   included *)

MaxThickness == 2

RadiiInputs ==
    { [DefaultInput EXCEPT !.A_cond = a, !.cond_screen = t1, !.insulation = t2,
                           !.insul_screen_NM = t3, !.insul_screen_ME = t4] :
        a \in {0, 50, 200}, t1 \in (-1)..MaxThickness,
        t2 \in (-1)..MaxThickness, t3 \in (-1)..MaxThickness,
        t4 \in (-1)..MaxThickness }

InitRadii == \E in \in RadiiInputs : InitWith(in)

SpecRadii == InitRadii /\ [][ComputeSupport]_vars

\* the thicknesses of the conductor layers 1..4, innermost first
LayerThickness(j) ==
    CASE j = 1 -> inp.cond_screen
      [] j = 2 -> inp.insulation
      [] j = 3 -> inp.insul_screen_NM
      [] j = 4 -> inp.insul_screen_ME

RECURSIVE ThicknessUpTo(_)
ThicknessUpTo(j) == IF j = 0 THEN 0 ELSE ThicknessUpTo(j - 1) + LayerThickness(j)

\* the support variables have been assigned
SupportDone == pc # "support"

\* C12: for a base radius r_cond >= 0 and four non-negative layer
\* thicknesses, each derived radius is r_cond plus the thicknesses up to and
\* including its layer, the radii are non-decreasing from r_cond to
\* r_cond_total, and a layer of thickness 0 has the radius of the previous one.
C12_LayerRadii ==
    (SupportDone /\ \A j \in 1..4 : LayerThickness(j) >= 0) =>
        /\ sup.r_cond >= 0
        /\ LayerRadius(0) = sup.r_cond
        /\ \A j \in 1..4 :
              /\ LayerRadius(j) = sup.r_cond + ThicknessUpTo(j)
              /\ LayerRadius(j) >= LayerRadius(j - 1)
              /\ LayerThickness(j) = 0 => LayerRadius(j) = LayerRadius(j - 1)

C12_Witness ==
    /\ SupportDone
    /\ sup.r_cond > 0
    /\ inp.cond_screen = 0 /\ inp.insulation > 0
    /\ inp.insul_screen_NM = 0 /\ inp.insul_screen_ME > 0
    /\ sup.r_cond_screen = sup.r_cond
    /\ sup.r_cond_insul > sup.r_cond_screen
    /\ sup.r_cond_insu_screen_NM = sup.r_cond_insul
    /\ sup.r_cond_total > sup.r_cond_insu_screen_NM

----------------------------------------------------------------------------
(* Label points of the annuli, as twice their distance from the centre of
   the annulus so that the halves of lines 206-279, 293, 348 and 369 are
   integral *)

\* lines 206, 211, 216, 221 (and 235-250, 264-279): the label of layer j of a
\* conductor lies at r_layer - 0.5 * thickness from the conductor centre
CondLabelDist2(j) == 2 * LayerRadius(j) - LayerThickness(j)

\* line 293: the bedding label lies at bundle extent + 0.5 * bedding
BeddingLabelDist2 == 2 * BundleExtent + inp.bedding
\* lines 294-299: the radii of the two bedding circles
BeddingInner == BundleExtent + dist1
BeddingOuter == BundleExtent + inp.bedding

\* lines 348, 369: the over sheath label lies at armour extent + dist1 +
\* 0.5 * over_sheath
OverLabelDist2 == 2 * (ArmourExtent + dist1) + inp.over_sheath
\* lines 349-354, 370-375: the radii of the two over sheath circles
OverInner == ArmourExtent + dist1
OverOuter == ArmourExtent + inp.over_sheath + 2 * dist1

\* every thickness of the configuration is strictly positive
AllThicknessesPositive ==
    /\ \A j \in 1..4 : LayerThickness(j) > 0
    /\ inp.bedding > 0
    /\ inp.over_sheath > 0

\* C13: with all thicknesses strictly positive, the label of each conductor
\* layer lies strictly between the previous and the own layer radius, the
\* bedding label strictly between the inner and the outer bedding circle, and
\* the over sheath label strictly between the two over sheath circles.
C13_LabelsInsideAnnuli ==
    AllThicknessesPositive =>
        /\ \A k \in 1..3 : \A j \in 1..4 :
              L_cond(k, j) \in labels =>
                  /\ CondCircle(k, LayerRadius(j - 1)) \subseteq prims
                  /\ CondCircle(k, LayerRadius(j)) \subseteq prims
                  /\ 2 * LayerRadius(j - 1) < CondLabelDist2(j)
                  /\ CondLabelDist2(j) < 2 * LayerRadius(j)
        /\ L_bedding \in labels =>
              /\ Circle(0, BeddingInner, 0, -BeddingInner, 3) \subseteq prims
              /\ Circle(0, BeddingOuter, 0, -BeddingOuter, 3) \subseteq prims
              /\ 2 * BeddingInner < BeddingLabelDist2
              /\ BeddingLabelDist2 < 2 * BeddingOuter
        /\ L_over \in labels =>
              /\ Circle(0, OverInner, 0, -OverInner, 2) \subseteq prims
              /\ Circle(0, OverOuter, 0, -OverOuter, 2) \subseteq prims
              /\ 2 * OverInner < OverLabelDist2
              /\ OverLabelDist2 < 2 * OverOuter

----------------------------------------------------------------------------
(* The near and far profiles *)

\* the lists of the near/far loop (lines 577-581)
NearFarLists == {"contour", "b_value", "e_value", "b_value_far", "e_value_far"}

\* the offset of profile q on axes a: near on ax1 and ax2, far on ax3 and ax4
ProfileOffset(a, q) == IF a <= 2 THEN NearOffset(q) ELSE FarOffset(q)

\* a profile at height y: one position and one value per lateral position
\* -500, -499, ..., 499, in this order
ProfileAt(prof, y) ==
    /\ prof.x = Range(-LateralHalfSpan, LateralHalfSpan)
    /\ Len(prof.y) = 2 * LateralHalfSpan
    /\ \A k \in DOMAIN prof.y : prof.y[k][1] = prof.x[k] /\ prof.y[k][2] = y

C14_Profiles ==
    /\ pc = "sample" => \A f \in NearFarLists : lists[f] = <<>>
    /\ pc = "plot" => \A f \in NearFarLists : Len(lists[f]) = 2 * LateralHalfSpan
    /\ \A a \in 1..4 :
          /\ Len(axes[a]) <= NumOffsets
          /\ pc \in {"offset", "sample", "plot"} => Len(axes[a]) = p - 1
          /\ \A q \in DOMAIN axes[a] : ProfileAt(axes[a][q], ProfileOffset(a, q))

\* a profile handed to the plot stays as it is while the script runs
C14_ProfilesKept ==
    \A a \in 1..4 : \A q \in DOMAIN axes[a] :
        q \in DOMAIN axes'[a] /\ axes'[a][q] = axes[a][q]

\* C14: the near and far profiles are produced in the order of the offsets
\* p = 1, 2, 3, each from fresh empty lists, each with one position and one
\* value per lateral position -500..499 in increasing order, and a profile
\* handed to the plot is not modified afterwards, in every step of the
\* script other than its abort.
C14_OrderedImmutableProfiles ==
    [][pc' # "aborted" =>
          C14_Profiles /\ C14_Profiles' /\ C14_ProfilesKept]_vars

C14_Witness ==
    /\ pc = "done"
    /\ \A a \in 1..4 : Len(axes[a]) = NumOffsets
    /\ axes[1][1].y[1] = BSample(-LateralHalfSpan, NearOffset(1))
    /\ axes[3][NumOffsets].y[2 * LateralHalfSpan] =
          BSample(LateralHalfSpan - 1, FarOffset(NumOffsets))

----------------------------------------------------------------------------
(* Material library *)

\* lines 63-101: the conductivity the configuration block declares for each
\* material
DeclaredConductivity(m) ==
    CASE m = "copper_conductors" -> copper_conductivity
      [] m = "XLPE" -> XLPE_conductivity
      [] m = "M_screen" -> M_screen_conductivity
      [] m = "NM_screen" -> NM_screen_conductivity
      [] m = "inner" -> inner_conductivity
      [] m = "bedding" -> bedding_conductivity
      [] m = "armour" -> armour_conductivity
      [] m = "over" -> over_conductivity
      [] m = "seawater" -> seawater_conductivity
      [] m = "seabed" -> seabed_conductivity

\* C15: every registered material carries the conductivity declared for that
\* same material; in particular copper_conductors, the material of the three
\* conductors, carries the copper conductivity.
C15_DeclaredConductivities ==
    DOMAIN materials # {} =>
        /\ "copper_conductors" \in DOMAIN materials
        /\ \A m \in DOMAIN materials : materials[m] = DeclaredConductivity(m)
        /\ PropsDone =>
              \A k \in 1..3 : props[L_cond(k, 0)].mat = "copper_conductors"

----------------------------------------------------------------------------
(* Selection across the property blocks *)

\* the property blocks of this run
Blocks == { BlockOrder[k] : k \in DOMAIN BlockOrder }

\* the labels the select calls of block b address
\* the labels addressed by the select calls of a list of operations
SelectedBy(ops) ==
    { ops[j].label : j \in { j \in DOMAIN ops : ops[j].op = "select" } }
BlockLabels(b) ==
    UNION { SelectedBy(BlockOps(b, k)) : k \in BlockFirst(b)..BlockLast(b) }

\* the selection is empty where a block begins, after the last block and
\* when the solver runs
C16_EmptyBetweenBlocks ==
    /\ (pc \in Blocks /\ i = BlockFirst(pc)) => selected = {}
    /\ PropsDone => selected = {}

\* a step of a block writes only to labels the block addresses, and no other
\* step changes the properties of a label
C16_OwnLabelsOnly ==
    \A l \in labels :
        props'[l] # props[l] => pc \in Blocks /\ l \in BlockLabels(pc)

\* C16: the selection is empty at the end of every property block and when
\* the solver is invoked, and a set-block-property call of a block never
\* overwrites a label of another block.
C16_SelectionEmptiedPerBlock ==
    [][C16_EmptyBetweenBlocks /\ C16_EmptyBetweenBlocks' /\ C16_OwnLabelsOnly]_vars

C16_Witness ==
    /\ pc = "prop_interarmour" /\ i = 0
    /\ arm.NbrOfArmourElem >= 2
    /\ \A l \in WireLabelsOf(1) : props[l].written
    /\ selected = {}

----------------------------------------------------------------------------
(* Query points *)

\* the sample lists of the script and the lines of the six axes; each sample
\* starts with the point (x, y), in mm, of its mo_getb or mo_getj query
QueryProfiles ==
    { lists[f] : f \in {"b_value", "e_value", "b_value_far", "e_value_far",
                        "b_value3", "e_value3"} }
    \cup UNION { { axes[a][q].y : q \in DOMAIN axes[a] } : a \in 1..6 }

\* inside the outer square of lines 171-174
InsideOuterSquare(x, y) ==
    /\ -limit_coarse <= x * Scale /\ x * Scale <= limit_coarse
    /\ -limit_coarse <= y * Scale /\ y * Scale <= limit_coarse

\* strictly outside the outer over sheath circle of lines 353-354, 374-375:
\* x^2 + y^2 > (OverOuter / Scale)^2 for integral x and y
OutsideCable(x, y) == x * x + y * y > (OverOuter * OverOuter) \div (Scale * Scale)

\* C17: every point of a near, far or radial query lies inside the outer
\* square and strictly outside the outer over sheath circle.
C17_QueryPointsInDomain ==
    \A s \in QueryProfiles : \A k \in DOMAIN s :
        InsideOuterSquare(s[k][1], s[k][2]) /\ OutsideCable(s[k][1], s[k][2])

C17_Witness ==
    /\ pc = "done"
    /\ inp.r_armour_2 # 0
    /\ Len(axes[3]) = NumOffsets
    /\ axes[3][NumOffsets].y[1] = BSample(-LateralHalfSpan, FarOffset(NumOffsets))
    /\ Len(axes[5]) = 1
    /\ axes[5][1].y[1] = BSample(0, RadialFrom)
    /\ Len(axes[5][1].y) = RadialEnd - RadialFrom

====
